---- MODULE Spec2Model ----
(***************************************************************************)
(* Model of the hyperlink parsers of parse-hyperlinks:                     *)
(*   src/src/parser/html.rs              html_link and its helpers         *)
(*   src/src/parser/restructured_text.rs rst_link, rst_link_ref, helpers   *)
(*                                                                         *)
(* A text is a sequence of one-character strings.  A parser result is a    *)
(* record [ok, rest, out, kind]: on success rest is the remaining input    *)
(* and out the value; on failure rest is the input slice carried by        *)
(* the error (its position) and kind the error kind.  The combinators      *)
(* of the parsing library the code is built from are modelled by what they *)
(* do on these sequences.                                                  *)
(***************************************************************************)
EXTENDS Integers, Sequences, FiniteSets, TLC

VARIABLES
    op,        \* the operation the input is given to
    input,     \* the input text of the operation
    pc,        \* "start" before the call, "done" after it, "again" after a re-run,
               \* "loop" between the iterations of remove_whitespace
    res,       \* the result of the call
    res2,      \* the result of the second call (re-run or companion input)
    parts,     \* the parts the input was assembled from
    strict,    \* whether the list combinator rejects an empty first element
    iterations \* the iterations of the while loop of remove_whitespace so far

vars == <<op, parts, input, pc, res, res2, strict, iterations>>

----------------------------------------------------------------------------
(* Texts *)

Take(s, n) == SubSeq(s, 1, n)

Drop(s, n) == SubSeq(s, n + 1, Len(s))

StartsWith(s, t) == Len(s) >= Len(t) /\ SubSeq(s, 1, Len(t)) = t

BS == "\\"

\* The backquote character (written as a name: the character cannot be written
\* in a string of this language)
BT == "backquote"

Whitespace == {" ", "\t", "\n", "\r"}

Alphabetic == {"a", "b", "c", "d", "e", "f", "h", "i", "l", "n", "o", "r", "t", "x"}

Digit == {"1"}

Alphanumeric == Alphabetic \cup Digit

Ok(rest, out) == [ok |-> TRUE, rest |-> rest, out |-> out, kind |-> "Ok"]

Err(at, kind) == [ok |-> FALSE, rest |-> at, out |-> <<>>, kind |-> kind]

NoResult == [ok |-> FALSE, rest |-> <<>>, out |-> <<>>, kind |-> "None"]

\* The ? operator: the error r is returned, the success r is handed to K
Try(r, K(_)) == IF r.ok THEN K(r) ELSE r

\* .map_err(|_| e)? : the error r is replaced by e
TryOr(r, e, K(_)) == IF r.ok THEN K(r) ELSE e

\* Length of the longest prefix of s whose characters all satisfy "in set"
\* (inSet = TRUE) or "not in set" (inSet = FALSE).
RECURSIVE SpanLen(_, _, _)
SpanLen(s, set, inSet) ==
    IF s = <<>> \/ ((s[1] \in set) # inSet)
    THEN 0
    ELSE 1 + SpanLen(Tail(s), set, inSet)

\* str::trim_end / str::trim
RECURSIVE trim_end(_)
trim_end(s) ==
    IF s # <<>> /\ s[Len(s)] \in Whitespace THEN trim_end(Take(s, Len(s) - 1)) ELSE s

trim(s) == trim_end(Drop(s, SpanLen(s, Whitespace, TRUE)))

----------------------------------------------------------------------------
(* Library combinators *)

tag(t, s) == IF StartsWith(s, t) THEN Ok(Drop(s, Len(t)), t) ELSE Err(s, "Tag")

\* is_not(set): the non-empty run of characters outside set
is_not(set, s) ==
    LET n == SpanLen(s, set, FALSE)
    IN  IF n = 0 THEN Err(s, "IsNot") ELSE Ok(Drop(s, n), Take(s, n))

alphanumeric1(s) ==
    LET n == SpanLen(s, Alphanumeric, TRUE)
    IN  IF n = 0 THEN Err(s, "AlphaNumeric") ELSE Ok(Drop(s, n), Take(s, n))

multispace0(s) ==
    LET n == SpanLen(s, Whitespace, TRUE) IN Ok(Drop(s, n), Take(s, n))

multispace1(s) ==
    LET n == SpanLen(s, Whitespace, TRUE)
    IN  IF n = 0 THEN Err(s, "MultiSpace") ELSE Ok(Drop(s, n), Take(s, n))

space0(s) ==
    LET n == SpanLen(s, {" ", "\t"}, TRUE) IN Ok(Drop(s, n), Take(s, n))

eof(s) == IF s = <<>> THEN Ok(s, s) ELSE Err(s, "Eof")

anychar(s) == IF s = <<>> THEN Err(s, "Eof") ELSE Ok(Tail(s), <<s[1]>>)

\* take_until(t): everything before the first occurrence of t
NextOrNone(n) == IF n < 0 THEN -1 ELSE n + 1

RECURSIVE TakeUntilLen(_, _)
TakeUntilLen(t, s) ==
    IF StartsWith(s, t) THEN 0
    ELSE IF s = <<>> THEN -1
    ELSE NextOrNone(TakeUntilLen(t, Tail(s)))

take_until(t, s) ==
    LET n == TakeUntilLen(t, s)
    IN  IF n < 0 THEN Err(s, "TakeUntil") ELSE Ok(Drop(s, n), Take(s, n))

----------------------------------------------------------------------------
(* src/src/parser/html.rs *)

\* verify(alphanumeric1, |s| s.chars().next().unwrap().is_alphabetic())
identifier(i) ==
    Try(alphanumeric1(i), LAMBDA r :
    IF r.out[1] \in Alphabetic THEN r ELSE Err(i, "Verify"))

\* The first alternative of attribute: name="value"
attribute_pair(i) ==
    Try(identifier(i), LAMBDA n :
    Try(tag(<<"=", "\"">>, n.rest), LAMBDA q1 :
    Try(is_not({"\""}, q1.rest), LAMBDA v :
    Try(tag(<<"\"">>, v.rest), LAMBDA q2 :
    Ok(q2.rest, <<n.out, v.out>>)))))

\* The second alternative of attribute: a boolean attribute, consumed as ("", "")
attribute_bool(i) ==
    Try(identifier(i), LAMBDA n : Ok(n.rest, <<<<>>, <<>>>>))

\* alt((a, b)): the second parser is tried when the first fails
Alt(a, b) == IF a.ok THEN a ELSE b

attribute(i) == Alt(attribute_pair(i), attribute_bool(i))

\* The loop of separated_list1(multispace1, attribute) after the first element:
\* a separator or an element that does not parse ends the list with success,
\* leaving the input before that separator.
RECURSIVE attribute_list_loop(_, _)
attribute_list_loop(i, acc) ==
    TryOr(multispace1(i), Ok(i, acc), LAMBDA sep :
    TryOr(attribute(sep.rest), Ok(i, acc), LAMBDA a :
    attribute_list_loop(a.rest, Append(acc, a.out))))

attribute_list(i) ==
    Try(attribute(trim(i)), LAMBDA first :
    attribute_list_loop(first.rest, <<first.out>>))

Href == <<"h", "r", "e", "f">>

Title == <<"t", "i", "t", "l", "e">>

\* The for loop of parse_attributes from its k-th attribute on.
RECURSIVE parse_attributes_loop(_, _, _, _, _)
parse_attributes_loop(i, attributes, k, href, title) ==
    IF k > Len(attributes)
    THEN Try(anychar(href), LAMBDA c : Ok(i, <<href, title>>))
    ELSE LET name == attributes[k][1]
             value == attributes[k][2]
         IN  IF name = Href /\ ~eof(href).ok THEN eof(href)
             ELSE IF name = Title /\ ~eof(title).ok THEN eof(title)
             ELSE parse_attributes_loop(i, attributes, k + 1,
                      IF name = Href THEN value ELSE href,
                      IF name = Title THEN value ELSE title)

parse_attributes(i) ==
    Try(attribute_list(i), LAMBDA l :
    parse_attributes_loop(l.rest, l.out, 1, <<>>, <<>>))

tag_a_opening(i) ==
    Try(tag(<<"<", "a", " ">>, i), LAMBDA o :
    Try(is_not({">"}, o.rest), LAMBDA interior :
    Try(parse_attributes(interior.out), LAMBDA a :
    Try(tag(<<">">>, interior.rest), LAMBDA c :
    Ok(c.rest, a.out)))))

ClosingTag == <<"<", "/", "a", ">">>

html_link(i) ==
    Try(tag_a_opening(i), LAMBDA o :
    Try(take_until(ClosingTag, o.rest), LAMBDA n :
    Try(tag(ClosingTag, n.rest), LAMBDA c :
    Ok(c.rest, <<n.out, o.out[1], o.out[2]>>))))

----------------------------------------------------------------------------
(* Library combinators used by src/src/parser/restructured_text.rs *)

\* Cow<str>: the text and whether it is Owned (allocated) or Borrowed (a view)
Borrowed(s) == [str |-> s, owned |-> FALSE]

Owned(s) == [str |-> s, owned |-> TRUE]

\* escaped(none_of(noneOf), backslash, one_of(oneOf)) from offset k of input.
\* Every use in the source has the backslash in noneOf.
RECURSIVE escaped_loop(_, _, _, _)
escaped_loop(noneOf, oneOf, in, k) ==
    IF k >= Len(in) THEN Ok(<<>>, in)
    ELSE IF in[k + 1] \notin noneOf
    THEN \* the normal parser takes one character
         IF k + 1 = Len(in) THEN Ok(<<>>, in)
         ELSE escaped_loop(noneOf, oneOf, in, k + 1)
    ELSE IF in[k + 1] = BS
    THEN IF k + 1 >= Len(in) THEN Err(in, "Escaped")
         ELSE IF in[k + 2] \in oneOf
         THEN IF k + 2 = Len(in) THEN Ok(<<>>, in)
              ELSE escaped_loop(noneOf, oneOf, in, k + 2)
         ELSE \* the error of the escapable parser, at the character it was given
              Err(Drop(in, k + 1), "OneOf")
    ELSE IF k = 0 THEN Err(in, "Escaped")
    ELSE Ok(Drop(in, k), Take(in, k))

escaped(noneOf, oneOf, in) == escaped_loop(noneOf, oneOf, in, 0)

\* escaped_transform(is_not(backslash), backslash, alt((value(trans[c], tag(c)), ...)))
\* from offset index of input, with the text built so far in acc.
\* The step of escaped_transform at a backslash, the control character, at
\* offset index of input
RECURSIVE escaped_transform_loop(_, _, _, _)
escaped_transform_control(trans, in, index, acc) ==
    IF index + 1 >= Len(in) THEN Err(Drop(in, index), "EscapedTransform")
    ELSE IF in[index + 2] \in DOMAIN trans
    THEN IF index + 2 = Len(in) THEN Ok(<<>>, acc \o trans[in[index + 2]])
         ELSE escaped_transform_loop(trans, in, index + 2, acc \o trans[in[index + 2]])
    ELSE \* the error of the last alternative, tag(" "), at its input
         Err(Drop(in, index + 1), "Tag")

\* The step of escaped_transform after the normal parser took the run n
escaped_transform_normal(trans, in, acc, n) ==
    IF n.rest = <<>> THEN Ok(<<>>, acc \o n.out)
    ELSE escaped_transform_loop(trans, in, Len(in) - Len(n.rest), acc \o n.out)

escaped_transform_loop(trans, in, index, acc) ==
    IF index >= Len(in) THEN Ok(Drop(in, index), acc)
    ELSE \* is_not fails only at a backslash
         TryOr(is_not({BS}, Drop(in, index)),
               escaped_transform_control(trans, in, index, acc),
               LAMBDA n : escaped_transform_normal(trans, in, acc, n))

escaped_transform(trans, in) == escaped_transform_loop(trans, in, 0, <<>>)

line_ending(s) ==
    IF StartsWith(s, <<"\n">>) THEN Ok(Drop(s, 1), <<"\n">>)
    ELSE IF StartsWith(s, <<"\r", "\n">>) THEN Ok(Drop(s, 2), <<"\r", "\n">>)
    ELSE Err(s, "CrLf")

\* not_line_ending: up to the first "\n" or "\r\n"; a lone "\r" is an error
not_line_ending(s) ==
    LET n == SpanLen(s, {"\r", "\n"}, FALSE)
    IN  IF n = Len(s) THEN Ok(<<>>, s)
        ELSE IF s[n + 1] = "\r" /\ ~StartsWith(Drop(s, n), <<"\r", "\n">>)
        THEN Err(s, "Tag")
        ELSE Ok(Drop(s, n), Take(s, n))

----------------------------------------------------------------------------
(* src/src/parser/restructured_text.rs *)

\* The escapable sets of the parsers
EscLinkSpan == {" ", BT, ":", "<", ">", BS}

EscInner == {" ", BT, ":", "<", ">"}

\* opt(p): a failure of p consumes nothing
Opt(r, i) == IF r.ok THEN r ELSE Ok(i, <<>>)

\* A variant of rst_parse_link without opt(char('_')): it takes one underscore
\* after the closing backquote
rst_parse_link_one_underscore(i) ==
    Try(tag(<<BT>>, i), LAMBDA o :
    Try(escaped({BS, BT}, EscLinkSpan, o.rest), LAMBDA span :
    Try(tag(<<BT, "_">>, span.rest), LAMBDA c :
    Try(escaped({BS, "<"}, EscInner, span.out), LAMBDA n :
    Try(tag(<<"<">>, n.rest), LAMBDA lt :
    Try(escaped({BS, "<", ">"}, EscInner, lt.rest), LAMBDA d :
    Try(tag(<<">">>, d.rest), LAMBDA gt :
    Try(eof(gt.rest), LAMBDA e :
    Ok(c.rest, <<trim_end(n.out), d.out>>)))))))))

rst_parse_link(i) ==
    Try(tag(<<BT>>, i), LAMBDA o :
    Try(escaped({BS, BT}, EscLinkSpan, o.rest), LAMBDA span :
    Try(tag(<<BT, "_">>, span.rest), LAMBDA c :
    Try(Opt(tag(<<"_">>, c.rest), c.rest), LAMBDA u :
    Try(escaped({BS, "<"}, EscInner, span.out), LAMBDA n :
    Try(tag(<<"<">>, n.rest), LAMBDA lt :
    Try(escaped({BS, "<", ">"}, EscInner, lt.rest), LAMBDA d :
    Try(tag(<<">">>, d.rest), LAMBDA gt :
    Try(eof(gt.rest), LAMBDA e :
    Ok(u.rest, <<trim_end(n.out), d.out>>))))))))))

\* The first alternative of rst_parse_link_ref: a label in backquotes
link_ref_quoted(i) ==
    Try(tag(<<BT>>, i), LAMBDA o :
    Try(escaped({BS, BT}, EscInner, o.rest), LAMBDA l :
    Try(tag(<<BT, ":", " ">>, l.rest), LAMBDA c :
    Ok(c.rest, l.out))))

\* A variant of the second alternative that takes the label up to the first
\* colon that a space follows, whatever the label holds
link_ref_plain_until_terminator(i) ==
    Try(take_until(<<":", " ">>, i), LAMBDA l :
    Ok(Drop(l.rest, 2), l.out))

\* The second alternative of rst_parse_link_ref: a label up to ": "
link_ref_plain(i) ==
    Try(escaped({BS, ":"}, EscInner, i), LAMBDA l :
    Try(tag(<<":", " ">>, l.rest), LAMBDA c :
    Ok(c.rest, l.out)))

rst_parse_link_ref(i) ==
    IF ~StartsWith(i, <<"_">>) THEN Err(i, "Char")
    ELSE Try(Alt(link_ref_quoted(Drop(i, 1)), link_ref_plain(Drop(i, 1))), LAMBDA r :
         Ok(<<>>, <<r.out, r.rest>>))

\* The closure indent(wsp1, wsp2) of rst_explicit_markup_block
indent(wsp1, wsp2, i) ==
    Try(line_ending(i), LAMBDA l :
    Try(tag(wsp1, l.rest), LAMBDA a :
    Try(tag(wsp2, a.rest), LAMBDA b :
    Ok(b.rest, <<>>))))

\* The loop of separated_list1(indent(wsp1, wsp2), not_line_ending) after the
\* first line: v holds the lines taken so far.
RECURSIVE block_lines_loop(_, _, _, _)
block_lines_loop(wsp1, wsp2, i, v) ==
    TryOr(indent(wsp1, wsp2, i), Ok(i, v), LAMBDA sep :
    TryOr(not_line_ending(sep.rest), Ok(i, v), LAMBDA f :
    block_lines_loop(wsp1, wsp2, f.rest, Append(v, f.out))))

\* separated_list1(indent(wsp1, wsp2), not_line_ending).  Releases of the
\* library differ on a first element that consumes nothing: the older ones
\* answer with the error SeparatedList, the newer ones accept it; the variable
\* strict says which one the build has.
block_lines(wsp1, wsp2, i) ==
    Try(not_line_ending(i), LAMBDA first :
    IF strict /\ first.rest = i THEN Err(i, "SeparatedList")
    ELSE block_lines_loop(wsp1, wsp2, first.rest, <<first.out>>))

\* A variant of the for loop that pushes no space between the lines
RECURSIVE join_lines_no_space(_, _)
join_lines_no_space(v, k) ==
    IF k > Len(v) THEN <<>> ELSE v[k] \o join_lines_no_space(v, k + 1)

\* The for loop of rst_explicit_markup_block: a space is pushed between the lines
RECURSIVE join_lines(_, _)
join_lines(v, k) ==
    IF k > Len(v) THEN <<>>
    ELSE (IF k = 1 THEN <<>> ELSE <<" ">>) \o v[k] \o join_lines(v, k + 1)

rst_explicit_markup_block(i) ==
    Try(space0(i), LAMBDA wsp1 :
    Try(tag(<<".", ".", " ">>, wsp1.rest), LAMBDA m :
    Try(block_lines(wsp1.out, <<" ", " ", " ">>, m.rest), LAMBDA l :
    IF Len(l.out) = 1 THEN Ok(l.rest, Borrowed(l.out[1]))
    ELSE Ok(l.rest, Owned(join_lines(l.out, 1))))))

\* The replacement of each escaped character in the link name
NameTransform ==
    (BS :> <<BS>>) @@ (BT :> <<BT>>) @@ (":" :> <<":">>) @@ ("<" :> <<"<">>)
    @@ (">" :> <<">">>) @@ (" " :> <<>>)

\* A variant of the name transform without the comparison s == i: it allocates
\* always
name_transform_always_owned(i) ==
    Try(escaped_transform(NameTransform, i), LAMBDA t : Ok(t.rest, Owned(t.out)))

rst_escaped_link_name_transform(i) ==
    Try(escaped_transform(NameTransform, i), LAMBDA t :
    Ok(t.rest, IF t.out = i THEN Borrowed(i) ELSE Owned(t.out)))

\* A variant of the loop body whose none_of also excludes the colon
remove_whitespace_step_no_colon(j, acc) ==
    Try(multispace0(j), LAMBDA k :
    Try(escaped({BS, "\r", "\n", " ", "\t", ":"}, EscLinkSpan, k.rest), LAMBDA e :
    Ok(e.rest, IF acc = Borrowed(<<>>) THEN Borrowed(e.out)
               ELSE Owned(acc.str \o e.out))))

\* A variant of the loop body without the assignment j = k
remove_whitespace_step_keeps_j(j, acc) ==
    Try(multispace0(j), LAMBDA k :
    Try(escaped({BS, "\r", "\n", " ", "\t"}, EscLinkSpan, k.rest), LAMBDA e :
    Ok(j, IF acc = Borrowed(<<>>) THEN Borrowed(e.out)
          ELSE Owned(acc.str \o e.out))))

\* One iteration of the while loop of remove_whitespace on (j, res)
remove_whitespace_step(j, acc) ==
    Try(multispace0(j), LAMBDA k :
    Try(escaped({BS, "\r", "\n", " ", "\t"}, EscLinkSpan, k.rest), LAMBDA e :
    Ok(e.rest, IF acc = Borrowed(<<>>) THEN Borrowed(e.out)
               ELSE Owned(acc.str \o e.out))))

RECURSIVE remove_whitespace_loop(_, _)
remove_whitespace_loop(j, acc) ==
    IF j = <<>> THEN Ok(j, acc)
    ELSE Try(remove_whitespace_step(j, acc), LAMBDA r :
         remove_whitespace_loop(r.rest, r.out))

remove_whitespace(i) == remove_whitespace_loop(i, Borrowed(<<>>))

\* A variant of the replacements in the link destination that drops the
\* escaped space, as the replacements in the link name do
DestinationTransform_drops_space ==
    (BS :> <<BS>>) @@ (BT :> <<BT>>) @@ (":" :> <<":">>) @@ ("<" :> <<"<">>)
    @@ (">" :> <<">">>) @@ (" " :> <<>>)

\* The replacement of each escaped character in the link destination
DestinationTransform ==
    (BS :> <<BS>>) @@ (BT :> <<BT>>) @@ (":" :> <<":">>) @@ ("<" :> <<"<">>)
    @@ (">" :> <<">">>) @@ (" " :> <<" ">>)

\* A variant of the destination transform that reports every error of
\* remove_whitespace at the start of the input
destination_transform_error_at_start(i) ==
    TryOr(remove_whitespace(i), Err(i, "EscapedTransform"), LAMBDA w :
    TryOr(escaped_transform(DestinationTransform, w.out.str),
          Err(i, "EscapedTransform"), LAMBDA t :
    Ok(w.rest, IF t.out = i THEN Borrowed(i) ELSE Owned(t.out))))

rst_escaped_link_destination_transform(i) ==
    Try(remove_whitespace(i), LAMBDA w :
    TryOr(escaped_transform(DestinationTransform, w.out.str),
          Err(i, "EscapedTransform"), LAMBDA t :
    Ok(w.rest, IF t.out = i THEN Borrowed(i) ELSE Owned(t.out))))

rst_link(i) ==
    Try(rst_parse_link(i), LAMBDA p :
    Try(rst_escaped_link_name_transform(p.out[1]), LAMBDA ln :
    Try(rst_escaped_link_destination_transform(p.out[2]), LAMBDA ld :
    Ok(p.rest, <<ln.out, ld.out, Borrowed(<<>>)>>))))

\* The arm Cow::Borrowed(s) of rst_link_ref
link_ref_borrowed(s) ==
    Try(rst_parse_link_ref(s), LAMBDA p :
    Try(rst_escaped_link_name_transform(p.out[1]), LAMBDA ln :
    Try(rst_escaped_link_destination_transform(p.out[2]), LAMBDA ld :
    Ok(<<>>, <<ln.out, ld.out>>))))

\* A variant of the arm Cow::Owned(strg) that returns the results of the
\* transforms as they are
link_ref_owned_as_transformed(i, strg) ==
    TryOr(rst_parse_link_ref(strg), Err(i, "EscapedTransform"), LAMBDA p :
    TryOr(rst_escaped_link_name_transform(p.out[1]), Err(i, "EscapedTransform"),
          LAMBDA ln :
    TryOr(rst_escaped_link_destination_transform(p.out[2]), Err(i, "EscapedTransform"),
          LAMBDA ld :
    Ok(<<>>, <<ln.out, ld.out>>))))

\* The arm Cow::Owned(strg) of rst_link_ref; i is the input of rst_link_ref,
\* which my_err puts in every error
link_ref_owned(i, strg) ==
    TryOr(rst_parse_link_ref(strg), Err(i, "EscapedTransform"), LAMBDA p :
    TryOr(rst_escaped_link_name_transform(p.out[1]), Err(i, "EscapedTransform"),
          LAMBDA ln :
    TryOr(rst_escaped_link_destination_transform(p.out[2]), Err(i, "EscapedTransform"),
          LAMBDA ld :
    Ok(<<>>, <<Owned(ln.out.str), Owned(ld.out.str)>>))))

rst_link_ref(i) ==
    Try(rst_explicit_markup_block(i), LAMBDA c :
    Try(IF c.out.owned THEN link_ref_owned(i, c.out.str)
        ELSE link_ref_borrowed(c.out.str), LAMBDA r :
    Ok(c.rest, <<r.out[1], r.out[2], Borrowed(<<>>)>>)))

----------------------------------------------------------------------------
(* Inputs: every text is assembled from parts, kept in the state *)

\* The sequences of at most n elements of U
SeqsUpTo(U, n) == UNION {[1..k -> U] : k \in 0..n}

\* The concatenation of the texts of us
RECURSIVE Flatten(_)
Flatten(us) == IF us = <<>> THEN <<>> ELSE Head(us) \o Flatten(Tail(us))

\* The texts of ts with one space between them
RECURSIVE JoinSpace(_)
JoinSpace(ts) ==
    IF ts = <<>> THEN <<>>
    ELSE IF Len(ts) = 1 THEN ts[1]
    ELSE ts[1] \o <<" ">> \o JoinSpace(Tail(ts))

MaxAttrs == 3

HrefA == Href \o <<"=", "\"", "a", "\"">>

HrefB == Href \o <<"=", "\"", "b", "\"">>

HrefEmpty == Href \o <<"=", "\"", "\"">>

TitleT == Title \o <<"=", "\"", "t", "\"">>

TitleEmpty == Title \o <<"=", "\"", "\"">>

BoolAttr == <<"c">>

DigitFirst == <<"1", "x">>

HtmlTokens == {HrefA, HrefB, HrefEmpty, TitleT, TitleEmpty, BoolAttr, DigitFirst}

HtmlOps == {"parse_attributes", "tag_a_opening", "html_link"}

\* The input of an HTML operation whose tag interior holds the tokens ts
HtmlInput(o, ts, pad) ==
    LET interior == pad \o JoinSpace(ts) \o pad
    IN  IF o = "parse_attributes" THEN interior
        ELSE IF o = "tag_a_opening" THEN <<"<", "a", " ">> \o interior \o <<">", "n">>
        ELSE <<"<", "a", " ">> \o interior \o <<">", "n">> \o ClosingTag \o <<"r">>

Start(o, p, i) ==
    /\ op = o
    /\ parts = p
    /\ input = i
    /\ pc = "start"
    /\ res = NoResult
    /\ res2 = NoResult
    /\ iterations = 0

InitHtml ==
    \E o \in HtmlOps, ts \in SeqsUpTo(HtmlTokens, MaxAttrs), pad \in {<<>>, <<" ">>} :
        /\ Start(o, <<ts, pad>>, HtmlInput(o, ts, pad))
        /\ strict = FALSE

\* One call of the operation: res becomes its result
Call(o, r) ==
    /\ pc = "start"
    /\ op = o
    /\ res' = r
    /\ pc' = "done"
    /\ UNCHANGED <<op, parts, input, res2, strict, iterations>>

Call_parse_attributes == Call("parse_attributes", parse_attributes(input))

Call_tag_a_opening == Call("tag_a_opening", tag_a_opening(input))

Call_html_link == Call("html_link", html_link(input))

NextHtml == Call_parse_attributes \/ Call_tag_a_opening \/ Call_html_link

SpecHtml == InitHtml /\ [][NextHtml]_vars

----------------------------------------------------------------------------
(* Inputs of the reStructuredText operations *)

\* The two-character escapes the transforms know, and two malformed ones
EscBackslash == <<BS, BS>>

EscBackquote == <<BS, BT>>

EscColon == <<BS, ":">>

EscLt == <<BS, "<">>

EscGt == <<BS, ">">>

EscSpace == <<BS, " ">>

BadEscape == <<BS, "a">>

LoneBackslash == <<BS>>

Escapes == {EscBackslash, EscBackquote, EscColon, EscLt, EscGt, EscSpace}

MaxTextUnits == 3

TextUnits ==
    {<<"a">>, <<" ">>, <<"\t">>, <<"\n">>} \cup Escapes \cup {BadEscape, LoneBackslash}

TransformOps == {"rst_escaped_link_name_transform", "rst_escaped_link_destination_transform"}

InitTransform ==
    \E o \in TransformOps, us \in SeqsUpTo(TextUnits, MaxTextUnits) :
        /\ Start(o, <<us>>, Flatten(us))
        /\ strict = FALSE

Call_name_transform ==
    Call("rst_escaped_link_name_transform", rst_escaped_link_name_transform(input))

Call_destination_transform ==
    Call("rst_escaped_link_destination_transform",
         rst_escaped_link_destination_transform(input))

\* The destination transform applied to its own output
Again_destination_transform ==
    /\ pc = "done"
    /\ op = "rst_escaped_link_destination_transform"
    /\ res.ok
    /\ res2' = rst_escaped_link_destination_transform(res.out.str)
    /\ pc' = "again"
    /\ UNCHANGED <<op, parts, input, res, strict, iterations>>

NextTransform ==
    Call_name_transform \/ Call_destination_transform \/ Again_destination_transform

SpecTransform == InitTransform /\ [][NextTransform]_vars

MaxNameUnits == 2

LinkNameUnits ==
    {<<"a">>, <<" ">>, <<":">>, <<"<">>, <<BT>>} \cup Escapes \cup {BadEscape}

\* The raw destinations: nothing, or one unit
LinkDestinations ==
    {<<>>} \cup {<<u>> : u \in {<<"a">>, <<" ">>, EscBackslash, EscColon, EscSpace,
                              BadEscape, LoneBackslash}}

\* What follows the closing bracket inside the backquotes, and what follows the link
LinkEndings ==
    { <<<<>>, <<>>>>, <<<<>>, <<"a">>>>, <<<<>>, <<"_">>>>, <<<<"a">>, <<>>>>,
      <<<<BT, "_">>, <<"a">>>>, <<<<BS>>, <<">", BT, "_", "a">>>> }

\* The inline link with the given body, suffix marker and rest
LinkInput(body, marker, rest) == <<BT>> \o body \o <<BT>> \o marker \o rest

LinkBody(ns, ds, trail) == Flatten(ns) \o <<"<">> \o Flatten(ds) \o <<">">> \o trail

InitLink ==
    \E ns \in SeqsUpTo(LinkNameUnits, MaxNameUnits), ds \in LinkDestinations,
       e \in LinkEndings :
        /\ Start("rst_link", <<ns, ds, e[1], e[2]>>,
                 LinkInput(LinkBody(ns, ds, e[1]), <<"_">>, e[2]))
        /\ strict = FALSE

\* rst_link on the input, and on the same link with the doubled suffix marker
Call_rst_link ==
    /\ pc = "start"
    /\ op = "rst_link"
    /\ res' = rst_link(input)
    /\ res2' = rst_link(LinkInput(LinkBody(parts[1], parts[2], parts[3]),
                                  <<"_", "_">>, parts[4]))
    /\ pc' = "done"
    /\ UNCHANGED <<op, parts, input, strict, iterations>>

NextLink == Call_rst_link

SpecLink == InitLink /\ [][NextLink]_vars

MaxLabelUnits == 2

LabelUnits ==
    {<<"a">>, <<" ">>, <<":">>, <<BT>>, EscBackslash, EscBackquote, EscColon, EscSpace,
     BadEscape}

\* The terminator of the label: on one line, or with the line break of a
\* continuation line in the place of its space
Terminators == {<<":", " ">>, <<":", "\n", " ", " ", " ">>}

\* What follows the first line of a link reference: nothing, a continuation
\* line, a line indented one column too little
Continuations ==
    { <<>>, <<"\n", " ", " ", " ", "a">>, <<"\n", " ", " ", "a">> }

LinkRefInput(ls, ds, quoted, term, cont) ==
    <<".", ".", " ", "_">>
    \o (IF quoted THEN <<BT>> \o Flatten(ls) \o <<BT>> ELSE Flatten(ls))
    \o term \o Flatten(ds) \o cont

InitLinkRef ==
    \E ls \in SeqsUpTo(LabelUnits, MaxLabelUnits), ds \in LinkDestinations,
       quoted \in BOOLEAN, term \in Terminators, cont \in Continuations :
        /\ Start("rst_link_ref", <<ls, ds, quoted, term, cont>>,
                 LinkRefInput(ls, ds, quoted, term, cont))
        /\ strict \in BOOLEAN

Call_rst_link_ref == Call("rst_link_ref", rst_link_ref(input))

NextLinkRef == Call_rst_link_ref

SpecLinkRef == InitLinkRef /\ [][NextLinkRef]_vars

\* The pieces of the inputs of remove_whitespace
WhitespaceUnits == TextUnits \cup {<<"\r">>}

InitRemoveWhitespace ==
    \E us \in SeqsUpTo(WhitespaceUnits, MaxTextUnits) :
        /\ Start("remove_whitespace", <<us>>, Flatten(us))
        /\ strict = FALSE

\* The loop of remove_whitespace, one iteration at a time: res holds j as its
\* rest and the variable res of the code as its out, res2 holds them as they
\* were before the last iteration
Enter_remove_whitespace ==
    /\ pc = "start"
    /\ op = "remove_whitespace"
    /\ res' = Ok(input, Borrowed(<<>>))
    /\ pc' = "loop"
    /\ UNCHANGED <<op, parts, input, res2, strict, iterations>>

Iterate_remove_whitespace ==
    /\ pc = "loop"
    /\ res.rest # <<>>
    /\ res' = remove_whitespace_step(res.rest, res.out)
    /\ res2' = res
    /\ iterations' = iterations + 1
    /\ pc' = IF res'.ok THEN "loop" ELSE "done"
    /\ UNCHANGED <<op, parts, input, strict>>

Return_remove_whitespace ==
    /\ pc = "loop"
    /\ res.rest = <<>>
    /\ pc' = "done"
    /\ UNCHANGED <<op, parts, input, res, res2, strict, iterations>>

NextRemoveWhitespace ==
    \/ Enter_remove_whitespace
    \/ Iterate_remove_whitespace
    \/ Return_remove_whitespace

\* The code runs on: enabled steps are taken
SpecRemoveWhitespace ==
    InitRemoveWhitespace /\ [][NextRemoveWhitespace]_vars /\ WF_vars(NextRemoveWhitespace)

\* What follows the label of the text given to rst_parse_link_ref: the
\* terminator, a colon with no space after it, or nothing
LabelEndings == {<<":", " ">>, <<":">>, <<>>}

\* The raw destinations of the text given to rst_parse_link_ref
RefDestinations == {<<>>, <<"a">>, <<":", " ", "a">>}

\* The text of a link reference after the marker of the block
ParseLinkRefInput(ls, quoted, ending, d) ==
    <<"_">> \o (IF quoted THEN <<BT>> \o Flatten(ls) \o <<BT>> ELSE Flatten(ls))
    \o ending \o d

\* The label units with every unescaped colon escaped
EscapeColons(ls) == [k \in 1..Len(ls) |-> IF ls[k] = <<":">> THEN EscColon ELSE ls[k]]

InitParseLinkRef ==
    \E ls \in SeqsUpTo(LabelUnits, MaxLabelUnits), quoted \in BOOLEAN,
       ending \in LabelEndings, d \in RefDestinations :
        /\ Start("rst_parse_link_ref", <<ls, quoted, ending, d>>,
                 ParseLinkRefInput(ls, quoted, ending, d))
        /\ strict = FALSE

\* rst_parse_link_ref on the input, and on the same reference with the label
\* not in backquotes and its colons escaped
Call_rst_parse_link_ref ==
    /\ pc = "start"
    /\ op = "rst_parse_link_ref"
    /\ res' = rst_parse_link_ref(input)
    /\ res2' = rst_parse_link_ref(ParseLinkRefInput(EscapeColons(parts[1]), FALSE,
                                                    parts[3], parts[4]))
    /\ pc' = "done"
    /\ UNCHANGED <<op, parts, input, strict, iterations>>

NextParseLinkRef == Call_rst_parse_link_ref

SpecParseLinkRef == InitParseLinkRef /\ [][NextParseLinkRef]_vars

MaxLead == 1

MaxLines == 2

Spaces(n) == [k \in 1..n |-> " "]

\* A line after the first: its line ending, its indentation relative to the
\* column of the first line's content, and its content; the last content
\* holds a carriage return that is no line ending
ContinuationLines ==
    {<<eol, delta, c>> : eol \in {<<"\n">>, <<"\r", "\n">>}, delta \in {-1, 0, 1},
                         c \in {<<>>, <<"a">>, <<"\r", "a">>}}

RECURSIVE BlockTail(_, _)
BlockTail(lead, ls) ==
    IF ls = <<>> THEN <<>>
    ELSE ls[1][1] \o Spaces(lead + 3 + ls[1][2]) \o ls[1][3] \o BlockTail(lead, Tail(ls))

BlockInput(lead, marker, first, ls) ==
    Spaces(lead) \o marker \o first \o BlockTail(lead, ls)

InitBlock ==
    \E lead \in 0..MaxLead, marker \in {<<".", ".", " ">>, <<".", ".">>},
       first \in {<<>>, <<"a">>, <<"a", " ">>},
       ls \in SeqsUpTo(ContinuationLines, MaxLines) :
        /\ Start("rst_explicit_markup_block", <<lead, marker, first, ls>>,
                 BlockInput(lead, marker, first, ls))
        /\ strict \in BOOLEAN

Call_rst_explicit_markup_block ==
    Call("rst_explicit_markup_block", rst_explicit_markup_block(input))

NextBlock == Call_rst_explicit_markup_block

SpecBlock == InitBlock /\ [][NextBlock]_vars

\* The transforms and the block joiner together
InitCow == InitTransform \/ InitBlock

NextCow == NextTransform \/ NextBlock

SpecCow == InitCow /\ [][NextCow]_vars

\* The three link parsers together
InitParsers == InitHtml \/ InitLink \/ InitLinkRef

NextParsers == NextHtml \/ NextLink \/ NextLinkRef

SpecParsers == InitParsers /\ [][NextParsers]_vars

\* The two reStructuredText link parsers together
InitRst == InitLink \/ InitLinkRef

NextRst == NextLink \/ NextLinkRef

SpecRst == InitRst /\ [][NextRst]_vars

----------------------------------------------------------------------------
(* Properties *)

Chars(s) == {s[k] : k \in 1..Len(s)}

\* The part of the input the call consumed
Consumed == Take(input, Len(input) - Len(res.rest))

\* The number of tokens of ts that give the attribute key a value
KeyCount(ts, key) ==
    Cardinality({k \in 1..Len(ts) : StartsWith(ts[k], key \o <<"=">>)})

\* The destination of a returned triple
Destination(r) == IF op = "html_link" THEN r.out[2] ELSE r.out[2].str

\* C1: whenever html_link, rst_link or rst_link_ref returns Ok, the destination
\* of the returned triple is not empty.
C1_DestinationNonEmpty ==
    (pc = "done" /\ op \in {"html_link", "rst_link", "rst_link_ref"} /\ res.ok)
        => Destination(res) # <<>>

\* C2: an attribute list with two occurrences of the key href, or two of the
\* key title, makes parse_attributes, tag_a_opening and html_link fail, whatever
\* the values are, an empty second value included.
C2_DuplicateKeyFails ==
    (/\ pc = "done"
     /\ op \in HtmlOps
     /\ (KeyCount(parts[1], Href) >= 2 \/ KeyCount(parts[1], Title) >= 2))
        => ~res.ok

\* C6: a tag interior that holds a token starting with a digit, at any position
\* of the list, makes parse_attributes, tag_a_opening and html_link fail.
C6_MalformedTokenFails ==
    (pc = "done" /\ op \in HtmlOps /\ \E k \in 1..Len(parts[1]) : parts[1][k] = DigitFirst)
        => ~res.ok

\* The characters an escape sequence may name
Recognized == {BS, BT, ":", "<", ">", " "}

\* The offset in s of the first backslash followed by a character that is not
\* Recognized, scanning escape sequences from the left; -1 if there is none
RECURSIVE FirstBadEscapeFrom(_, _)
FirstBadEscapeFrom(s, k) ==
    IF k >= Len(s) THEN -1
    ELSE IF s[k] # BS THEN FirstBadEscapeFrom(s, k + 1)
    ELSE IF s[k + 1] \in Recognized THEN FirstBadEscapeFrom(s, k + 2)
    ELSE k - 1

FirstBadEscape(s) == FirstBadEscapeFrom(s, 1)

\* The offset in the input of the slice the error carries
ErrorOffset == Len(input) - Len(res.rest)

\* The decoding the transforms are to compute, character by character: an
\* escape sequence gives its character, but the escaped space gives spaceAs,
\* and unescaped whitespace is dropped if dropWs
RECURSIVE Decoded(_, _, _)
Decoded(s, dropWs, spaceAs) ==
    IF s = <<>> THEN <<>>
    ELSE IF s[1] = BS /\ Len(s) >= 2
         THEN (IF s[2] = " " THEN spaceAs ELSE <<s[2]>>)
              \o Decoded(Drop(s, 2), dropWs, spaceAs)
    ELSE IF dropWs /\ s[1] \in Whitespace THEN Decoded(Drop(s, 1), dropWs, spaceAs)
    ELSE <<s[1]>> \o Decoded(Drop(s, 1), dropWs, spaceAs)

\* C3, as stated: whenever the destination transform succeeds with output t,
\* the destination transform of t succeeds and returns t.
C3_Idempotent ==
    pc = "again" => (res2.ok /\ res2.out.str = res.out.str)

\* C3, amended: whenever the destination transform succeeds with an output t
\* that holds neither a backslash nor a space, the destination transform of t
\* succeeds and returns t, borrowed.
C3_IdempotentOnPlainOutput ==
    (pc = "again" /\ BS \notin Chars(res.out.str) /\ " " \notin Chars(res.out.str))
        => (res2.ok /\ res2.out = Borrowed(res.out.str) /\ res2.rest = <<>>)

C3_Witness ==
    /\ pc = "again"
    /\ parts[1] = << <<"a">>, <<" ">>, EscColon >>
    /\ res.out = Owned(<<"a", ":">>)
    /\ res2.ok

\* C7, as stated: an input of a transform with a backslash followed by a
\* character that is not recognized makes the transform fail, and the error
\* carries the position of that backslash.
C7_ErrorAtBackslash ==
    (pc = "done" /\ op \in TransformOps /\ FirstBadEscape(input) >= 0)
        => (~res.ok /\ ErrorOffset = FirstBadEscape(input))

\* C7, amended: an input of a transform with a backslash followed by a
\* character that is not recognized makes the transform fail, and the error
\* carries the position of the character after the first such backslash.
C7_ErrorAfterBackslash ==
    (pc = "done" /\ op \in TransformOps /\ FirstBadEscape(input) >= 0)
        => (~res.ok /\ ErrorOffset = FirstBadEscape(input) + 1)

C7_Witness ==
    /\ pc = "done"
    /\ op = "rst_escaped_link_destination_transform"
    /\ parts[1] = << <<" ">>, EscColon, BadEscape >>
    /\ ~res.ok
    /\ res.rest = <<"a">>

\* C9: on success the name transform returns its input with every unescaped
\* whitespace character kept and every escape sequence replaced by its
\* character, the escaped space by nothing; the destination transform returns
\* its input with every unescaped space, tab and line ending deleted and every
\* escape sequence replaced by its character, the escaped space by one space.
\* Both succeed on every input whose backslashes all start an escape sequence.
C9_EscapedSpaceAsymmetry ==
    (pc = "done" /\ op \in TransformOps)
        => /\ res.ok =>
                res.out.str = IF op = "rst_escaped_link_name_transform"
                              THEN Decoded(input, FALSE, <<>>)
                              ELSE Decoded(input, TRUE, <<" ">>)
           /\ res.ok <=> (/\ FirstBadEscape(input) = -1
                          /\ FirstBadEscape(input \o <<"a">>) = -1)

C9_Witness ==
    /\ pc = "done"
    /\ op = "rst_escaped_link_destination_transform"
    /\ input = <<"a", " ", BS, " ">>
    /\ res.ok
    /\ res.out.str = <<"a", " ">>

\* x is a slice of s
IsSlice(x, s) == \E k \in 0..(Len(s) - Len(x)) : Take(Drop(s, k), Len(x)) = x

RawFields == rst_parse_link_ref(Drop(Consumed, 3)).out

\* C5: when rst_link_ref succeeds on a block of more than one line, the name and
\* the destination are both Owned, also where the transform changed nothing;
\* when it succeeds on a block of one line, a field its transform left
\* unchanged is Borrowed and a slice of the input.
C5_OwnershipPropagation ==
    (pc = "done" /\ op = "rst_link_ref" /\ res.ok)
        => IF "\n" \in Chars(Consumed)
           THEN res.out[1].owned /\ res.out[2].owned
           ELSE \A k \in 1..2 :
                    res.out[k].str = RawFields[k]
                        => (~res.out[k].owned /\ IsSlice(res.out[k].str, input))

C5_Witness ==
    /\ pc = "done"
    /\ op = "rst_link_ref"
    /\ input = <<".", ".", " ", "_", "a", ":", "\n", " ", " ", " ", "a">>
    /\ res.ok
    /\ res.out[1] = Owned(<<"a">>)
    /\ res.out[2] = Owned(<<"a">>)

\* An ordinary character, or one of the escape sequences of a backslash, a
\* backquote, a colon, a less-than sign and a greater-than sign
PlainUnits == {<<"a">>, EscBackslash, EscBackquote, EscColon, EscLt, EscGt}

\* us is one or more PlainUnits
IsPlain(us) == us # <<>> /\ \A k \in 1..Len(us) : us[k] \in PlainUnits

\* The text of PlainUnits with each escape sequence replaced by its character
RECURSIVE Unescaped(_)
Unescaped(us) ==
    IF us = <<>> THEN <<>>
    ELSE <<us[1][Len(us[1])]>> \o Unescaped(Tail(us))

\* C8: rst_link on an inline link whose name and destination are built from
\* ordinary characters and the escape sequences of a backslash, a backquote, a
\* colon, a less-than and a greater-than sign succeeds and returns both with
\* each escape sequence replaced by its character; so does rst_link_ref for the
\* label of a link reference of one line with the destination a.
C8_EscapesDecoded ==
    /\ (/\ pc = "done" /\ op = "rst_link"
        /\ IsPlain(parts[1]) /\ IsPlain(parts[2]) /\ parts[3] = <<>>)
            => /\ res.ok
               /\ res.out[1].str = Unescaped(parts[1])
               /\ res.out[2].str = Unescaped(parts[2])
    /\ (/\ pc = "done" /\ op = "rst_link_ref"
        /\ IsPlain(parts[1]) /\ parts[2] = << <<"a">> >>
        /\ parts[4] = <<":", " ">> /\ parts[5] = <<>>)
            => /\ res.ok
               /\ res.out[1].str = Unescaped(parts[1])

\* The span between the backquotes that rst_parse_link takes, if it takes one,
\* is the body the input was built from
SpanIsBody ==
    LET span == escaped({BS, BT}, EscLinkSpan, Drop(input, 1))
    IN  span.ok => span.out = LinkBody(parts[1], parts[2], parts[3])

Indented(l) == l[2] >= 0

\* The number of lines at the head of ls that are Indented
RECURSIVE LinesIndented(_)
LinesIndented(ls) ==
    IF ls = <<>> \/ ~Indented(ls[1]) THEN 0 ELSE 1 + LinesIndented(Tail(ls))

\* C11: when rst_explicit_markup_block succeeds, the block holds every line
\* after the first up to the first one that does not start with a line
\* ending, the leading whitespace of the first line and three spaces, and the
\* remaining input starts at the line ending before that line.
C11_IndentationBoundary ==
    (pc = "done" /\ op = "rst_explicit_markup_block" /\ res.ok)
        => res.rest = BlockTail(parts[1], Drop(parts[4], LinesIndented(parts[4])))

\* The lines of the text s, which are separated by "\n" or "\r", "\n"
RECURSIVE SplitLines(_)
SplitLines(s) ==
    LET n == SpanLen(s, {"\n"}, FALSE)
    IN  IF n = Len(s) THEN <<s>>
        ELSE <<IF n > 0 /\ s[n] = "\r" THEN Take(s, n - 1) ELSE Take(s, n)>>
             \o SplitLines(Drop(s, n + 1))

\* The fragments of the consumed block: the first line after its leading
\* whitespace and marker, and every other line after as many characters
BlockFragments ==
    LET ls == SplitLines(Consumed)
    IN  [k \in 1..Len(ls) |-> Drop(ls[k], parts[1] + 3)]

\* C12: when rst_explicit_markup_block succeeds on a block of two or more
\* lines, the result is the fragments of the block with one space between
\* consecutive fragments, where the first fragment is the first line after the
\* marker and every other fragment is the line without the leading whitespace
\* of the first line and three spaces, its further leading spaces kept.
C12_JoinedWithOneSpace ==
    (/\ pc = "done" /\ op = "rst_explicit_markup_block" /\ res.ok
     /\ "\n" \in Chars(Consumed))
        => res.out = Owned(JoinSpace(BlockFragments))

C12_Witness ==
    /\ pc = "done"
    /\ op = "rst_explicit_markup_block"
    /\ input = <<".", ".", " ", "a", " ", "\n", " ", " ", " ", " ", "a">>
    /\ res.ok
    /\ res.rest = <<>>
    /\ res.out = Owned(<<"a", " ", " ", " ", "a">>)

\* The position in t of the first colon that no backslash escapes, 0 if none
RECURSIVE FirstColonFrom(_, _)
FirstColonFrom(t, k) ==
    IF k > Len(t) THEN 0
    ELSE IF t[k] = BS THEN FirstColonFrom(t, k + 2)
    ELSE IF t[k] = ":" THEN k
    ELSE FirstColonFrom(t, k + 1)

\* The input of rst_parse_link_ref after the underscore
AfterUnderscore == Drop(input, 1)

FirstColon == FirstColonFrom(AfterUnderscore, 1)

\* The input gives the label without backquotes
Unquoted == ~StartsWith(AfterUnderscore, <<BT>>)

\* Every backslash of t is followed by a character of EscInner
RECURSIVE EscapesAccepted(_, _)
EscapesAccepted(t, k) ==
    IF k > Len(t) THEN TRUE
    ELSE IF t[k] # BS THEN EscapesAccepted(t, k + 1)
    ELSE k < Len(t) /\ t[k + 1] \in EscInner /\ EscapesAccepted(t, k + 2)

\* ls is one or more units, none of them an unescaped backquote, a backslash
\* before another character than those of EscInner
IsQuotable(ls) ==
    /\ ls # <<>>
    /\ \A k \in 1..Len(ls) : ls[k] \notin {<<BT>>, EscBackslash, BadEscape}

\* The label and destination of the result r, the label after the name transform
LabelAndDestination(r) ==
    <<rst_escaped_link_name_transform(r.out[1]).out.str, r.out[2]>>

\* On success the label is the text before the first unescaped colon and the
\* destination the text after the colon and the space
FieldsAroundFirstColon ==
    /\ res.out[1] = Take(AfterUnderscore, FirstColon - 1)
    /\ res.out[2] = Drop(AfterUnderscore, FirstColon + 1)

\* A label in backquotes gives the label and destination of the label without
\* backquotes and with its colons escaped
QuotedAsEscaped ==
    res.ok /\ res2.ok /\ LabelAndDestination(res) = LabelAndDestination(res2)

\* C13, as stated: rst_parse_link_ref on a label without backquotes succeeds if
\* and only if the first unescaped colon after the underscore is followed by a
\* space, and then the label is the text before that colon and the destination
\* the text after the space; a label in backquotes gives the label and
\* destination of the same label without backquotes and with its colons escaped.
C13_FirstColonDecides ==
    pc = "done" /\ op = "rst_parse_link_ref"
        => /\ Unquoted
                => /\ res.ok <=> (/\ FirstColon > 0
                                  /\ FirstColon < Len(AfterUnderscore)
                                  /\ AfterUnderscore[FirstColon + 1] = " ")
                   /\ res.ok => FieldsAroundFirstColon
           /\ (parts[2] /\ parts[3] = <<":", " ">>
               /\ \A k \in 1..Len(parts[1]) : parts[1][k] # <<BT>>)
                => QuotedAsEscaped

\* C13, amended: rst_parse_link_ref on a label without backquotes succeeds if
\* and only if the first unescaped colon after the underscore is followed by a
\* space, the text before it is not empty and every backslash in it is followed
\* by a space, a backquote, a colon, a less-than or a greater-than sign; then
\* the label is that text and the destination the text after the space.  A
\* label in backquotes that is not empty and holds no unescaped backquote, no
\* escaped backslash and no other backslash than before those characters gives
\* the label and destination of the same label without backquotes and with its
\* colons escaped.
C13_FirstColonAndLabelDecide ==
    pc = "done" /\ op = "rst_parse_link_ref"
        => /\ Unquoted
                => /\ res.ok <=> (/\ FirstColon > 1
                                  /\ FirstColon < Len(AfterUnderscore)
                                  /\ AfterUnderscore[FirstColon + 1] = " "
                                  /\ EscapesAccepted(Take(AfterUnderscore,
                                                          FirstColon - 1), 1))
                   /\ res.ok => FieldsAroundFirstColon
           /\ (parts[2] /\ parts[3] = <<":", " ">> /\ IsQuotable(parts[1]))
                => QuotedAsEscaped

C13_Witness ==
    /\ pc = "done"
    /\ op = "rst_parse_link_ref"
    /\ input = <<"_", BT, "a", ":", BT, ":", " ", "a">>
    /\ res.ok /\ res2.ok
    /\ res.out = <<<<"a", ":">>, <<"a">>>>
    /\ res2.out = <<<<"a", BS, ":">>, <<"a">>>>

\* Every iteration made so far that returned no error left less input than it
\* was given, the iterations are no more than the characters of the input,
\* and the loop returns with no input left
LoopConsumes ==
    /\ iterations <= Len(input)
    /\ (iterations > 0 /\ res.ok) => Len(res.rest) < Len(res2.rest)
    /\ (pc = "done" /\ res.ok) => res.rest = <<>>
    /\ pc = "done" => res = remove_whitespace(input)

\* C14: the loop of remove_whitespace ends on every input: each iteration
\* returns an error or leaves less input than it was given, so there are at
\* most as many iterations as the input has characters, and on success no
\* input is left.
C14_LoopTerminates ==
    [](op = "remove_whitespace" => LoopConsumes) /\ <>(pc = "done")

C14_Witness ==
    /\ pc = "done"
    /\ op = "remove_whitespace"
    /\ input = <<"a", " ", "a">>
    /\ iterations = 2
    /\ res = Ok(<<>>, Owned(<<"a", "a">>))
    /\ res2.rest = <<" ", "a">>

\* C15: whenever rst_parse_link succeeds, the raw name after trim_end does not
\* end in a backslash that escapes nothing, and rst_link returns Ok; so for a
\* name that ends in an escaped space.
C15_TrimKeepsEscapes ==
    (pc = "done" /\ op = "rst_link" /\ rst_parse_link(input).ok)
        => /\ EscapesAccepted(rst_parse_link(input).out[1], 1)
           /\ res.ok

====
